---- MODULE Spec2Model ----
(***************************************************************************)
(* BitrixPullClient (src/src/pull/bitrix_pull.py): the connection          *)
(* manager, the reconnect state machine and the incoming-message handler.  *)
(*                                                                         *)
(* One action per entry point of the client: the application's calls       *)
(* (start_client, stop, disconnect, send_message), the callbacks of a      *)
(* WebSocketApp                                                            *)
(* (on_open, on_message, on_error, on_close, run_forever raising), the     *)
(* keepalive QTimer and the expiry of a QTimer.singleShot armed by         *)
(* schedule_reconnect.  A handler is one atomic step.  Time is abstracted: *)
(* a pending timer may expire at any moment, whatever its delay; the delay *)
(* a timer was armed with is kept in the record of the step that armed it. *)
(* Emissions on debug_info and raw_message_received are not recorded.      *)
(***************************************************************************)
EXTENDS Integers, Sequences, FiniteSets, TLC

\* ------------------------------------------------------------------ bounds
MaxStale == 1           \* replaced WebSocketApps whose worker is still alive
MaxTimers == 1          \* reconnect timers pending at once
MaxRpcId == 1           \* rpc ids allocated in a behaviour of Spec
MaxFrames == 2          \* inbound frames in a behaviour of SpecMsg
MaxMsgRpcId == 3        \* rpc ids allocated in a behaviour of SpecMsg
MaxSessionFrames == 12  \* inbound frames in a behaviour of SpecSession
MaxChannelFrames == 2   \* inbound frames in a behaviour of SpecChannel
MaxChannelRpcId == 2    \* rpc ids allocated in a behaviour of SpecChannel
MaxIoFrames == 2        \* inbound frames in a behaviour of SpecIo
MaxIoRpcId == 2         \* rpc ids allocated in a behaviour of SpecIo
MaxStopRpcId == 2       \* rpc ids allocated in a behaviour of SpecStop
MaxFailTimers == 2      \* reconnect timers pending at once in SpecFail
MaxDispatchFrames == 2  \* inbound frames in a behaviour of SpecDispatch
MaxRaceRpcId == 3       \* ids allocated in a behaviour of SpecRace
MaxRaceFrames == 1      \* inbound frames in a behaviour of SpecRace
MaxFrameFrames == 2     \* inbound frames in a behaviour of SpecFrame

\* ------------------------------------------------------- program constants
max_reconnect_attempts == 10
NORMAL_CLOSURE == 1000
RecentCap == 10
ErrorDelay == 5

\* ------------------------------------------------------------------ inputs
Mids == {1, 2}                   \* message ids a server assigns
NoMid == 0                       \* params without 'mid' (falsy)
\* close_status_code of on_close: None (0), normal closure, abnormal closure
CloseCodes == {0, NORMAL_CLOSURE, 1006}
\* str(error) of on_error, as sequences of characters
ErrReset == <<"r", "s", "t">>
Err401 == <<"H", "s", " ", "4", "0", "1">>
Err403 == <<"4", "0", "3", " ", "F">>
ErrTexts == {ErrReset, Err401, Err403}
Modules == {"im", "crm"}
\* text frames that are not JSON
TextPing == <<"p", "i", "n", "g">>
TextPong == <<"p", "o", "n", "g">>
TextPadded == <<" ", "p", "i", "n", "g", " ">>
TextOther == <<"p", "i", "n">>
Texts == {TextPing, TextPong, TextPadded, TextOther}
\* JSON texts.  A text is a sequence of items: a character, or one item
\* standing for all the members written between the braces of an object.
\* The objects: a 'message' notification, one whose params is a list, one
\* whose params.body is a string, the 'pull' message config_expired, pings
\* with ids, envelopes with method
\* 'result' and 'error', one with a method the client does not know, one
\* without a method (a response).
Members == {"message", "message_params_list", "message_body_str",
            "message_config_expired", "ping_1", "ping_9", "result", "error",
            "notify", "no_method"}
NoMethod == "None"               \* data.get('method') of an absent method
NoId == 0                        \* data.get('id') of an absent id
TextObject(members) == <<"{", members, "}">>
TextList == <<"[", "]">>
TextJunkObject == <<"x", "{", "message", "}">>
TextJunkBrace == <<"x", "{", "x">>
TextBlank == <<" ">>
TextAccent == <<"e_acute", "p", "i", "n", "g">>
FrameTexts ==
    {TextObject(members) : members \in Members}
        \cup {TextList, TextJunkObject, TextJunkBrace, TextBlank, TextAccent,
              TextPing, TextPadded, TextOther}
DecimalDigits == <<"0", "1", "2", "3", "4", "5", "6", "7", "8", "9">>
\* binary frames: the encodings of the texts, and bytes that are no UTF-8
BytesInvalid == <<255>>
BytesInvalidPing == <<255, 112, 105, 110, 103>>
BytesCutAccent == <<195, 112, 105, 110, 103>>
\* arguments of send_message
ChatIds == {7, 42}
MessageTexts == {"hello", "bye"}

\* The worker thread of a WebSocketApp: handshake under way, socket open,
\* error reported (on_error ran; "errored_auth" when its text was a 401/403
\* one), ended (on_close ran or run_forever raised).
Alive == {"connecting", "open", "errored", "errored_auth"}

\* what a call of the REST collaborator (get_token_api, create_token_api)
\* comes back with: a result holding a token, a result with 'error' set, a
\* result without a token, an exception
ApiResults == {"token", "error", "no_token", "raises"}
\* channel ids: the private channel of the captured configuration, and the
\* ones a 'channel_replaced' event may carry; "" for none
ConfigChannel == "cfg"
NewChannels == {"X", "Y"}
NoChannel == ""

VARIABLES
    pull_config,           \* whether a captured pull configuration exists
    running, is_authenticated, status, reconnect_attempts,
    is_manual_disconnect, ping_timer, rpc_id_counter, message_count,
    ws,                    \* "None", or the worker state of the WebSocketApp
                           \*   self.ws names
    stale,                 \* WebSocketApps self.ws no longer names and whose
                           \*   worker is alive: how many in each worker state
    session,               \* [mid, lastMessageIds]
    use_api_token,         \* TokenMode (TRUE) or CookieMode (FALSE)
    api_token,             \* whether self.api_token holds a token
    channel_id,            \* self.channel_id, NoChannel for None
    timers,                \* number of pending QTimer.singleShot(.., reconnect)
    outbox,                \* frames handed to ws.send that went out
    events,                \* emissions on message_received
    recorded,              \* history: every mid recorded in the session
    adopted,               \* history: the channel id of the last
                           \*   'channel_replaced' event that carried one
    old_timers,            \* history: how many of the pending timers were
                           \*   armed before the last stop()
    app,                   \* history: "fresh" until the application calls
                           \*   disconnect() or stop(), "manual" from then
                           \*   until it starts the client again, then
                           \*   "restarted"
    ev                     \* history: what the last step did

vars == <<pull_config, running, is_authenticated, status, reconnect_attempts,
          is_manual_disconnect, ping_timer, rpc_id_counter, message_count,
          ws, stale, session, use_api_token, api_token, channel_id, timers,
          outbox, events, recorded, adopted, old_timers, app, ev>>

Min(a, b) == IF a < b THEN a ELSE b

\* ev: the handler that ran (op), whether for the WebSocketApp self.ws names
\* (cur), reconnect_attempts when it began (n), whether it called
\* schedule_reconnect (called), with which delay argument, 0 for None (arg),
\* and the delay it gave QTimer.singleShot, 0 when it armed no timer
\* (armed); for on_close the close code; for on_error and on_close whether
\* the socket failed with a 401/403 error (auth); for on_message the mid and
\* whether it was in lastMessageIds already (dup), its body.module_id as
\* received and its body.command (module, command) and whether its
\* handler raised (raised); how a send_message of the application thread
\* that ran during the callback interleaved with it, "" when none did
\* (race); whether start_client
\* found the client not running and started it (started); how a call of
\* get_or_create_api_token ended, "" when there was none (token); the
\* connection request connect() made, if it made one: the CHANNEL_ID of its
\* URL (url) and its credentials, "token" for the auth_token/api_token
\* parameters and the Authorization header, "session" for the session
\* parameters (cred); the channel id a channel_replaced event made the
\* client adopt (adopt); the channel the subscription frame named (sub);
\* what send_message returned (ret) and its arguments (chat, msg); the text
\* of an inbound frame that is not JSON (frame); whether the timer that
\* expired was armed before the last stop() (old); what the step put out, in
\* order: "status_true" / "status_false" for an emission on
\* connection_status, "event" for one on message_received, the method of
\* a request frame that went out, "pong" for the text frame, "result" for a
\* response envelope (out); for on_message the bytes of a binary frame
\* (bytes), and the method and id of the envelope handle_json_message got,
\* "" when it got none (method, id); the calls the step made to the REST
\* collaborator, in order, and what get_token_api came back with (rest,
\* get).
NoEv == [op |-> "init", cur |-> TRUE, n |-> 0, called |-> FALSE, arg |-> 0,
         armed |-> 0, code |-> 0, auth |-> FALSE, mid |-> NoMid,
         dup |-> FALSE, started |-> FALSE, token |-> "", url |-> "", cred |-> "", adopt |-> "",
         sub |-> "", ret |-> "", chat |-> 0, msg |-> "", frame |-> <<>>,
         old |-> FALSE, out |-> <<>>, module |-> "", command |-> "",
         raised |-> FALSE, race |-> "", bytes |-> <<>>, method |-> "",
         id |-> 0, rest |-> <<>>, get |-> ""]

\* The client object and its output, as one record, so that a handler's
\* calls compose.
Self ==
    [pull_config |-> pull_config, running |-> running,
     is_authenticated |-> is_authenticated, status |-> status,
     reconnect_attempts |-> reconnect_attempts,
     is_manual_disconnect |-> is_manual_disconnect,
     ping_timer |-> ping_timer, rpc_id_counter |-> rpc_id_counter,
     message_count |-> message_count, ws |-> ws, stale |-> stale,
     session |-> session, use_api_token |-> use_api_token,
     api_token |-> api_token, channel_id |-> channel_id,
     timers |-> timers, outbox |-> outbox,
     events |-> events, recorded |-> recorded, adopted |-> adopted,
     old_timers |-> old_timers, app |-> app, ev |-> NoEv]

Commit(c) ==
    /\ pull_config' = c.pull_config
    /\ running' = c.running
    /\ is_authenticated' = c.is_authenticated
    /\ status' = c.status
    /\ reconnect_attempts' = c.reconnect_attempts
    /\ is_manual_disconnect' = c.is_manual_disconnect
    /\ ping_timer' = c.ping_timer
    /\ rpc_id_counter' = c.rpc_id_counter
    /\ message_count' = c.message_count
    /\ ws' = c.ws
    /\ stale' = c.stale
    /\ session' = c.session
    /\ use_api_token' = c.use_api_token
    /\ api_token' = c.api_token
    /\ channel_id' = c.channel_id
    /\ timers' = c.timers
    /\ outbox' = c.outbox
    /\ events' = c.events
    /\ recorded' = c.recorded
    /\ adopted' = c.adopted
    /\ old_timers' = c.old_timers
    /\ app' = c.app
    /\ ev' = c.ev

\* The state after __init__, but for the constructor arguments
\* (pull_config, use_api_token).
Constructed ==
    /\ running = FALSE
    /\ is_authenticated = FALSE
    /\ status = "offline"
    /\ reconnect_attempts = 0
    /\ is_manual_disconnect = FALSE
    /\ ping_timer = FALSE
    /\ rpc_id_counter = 0
    /\ message_count = 0
    /\ ws = "None"
    /\ stale = [st \in Alive |-> 0]
    /\ session = [mid |-> 0, lastMessageIds |-> <<>>]
    /\ api_token = FALSE
    /\ channel_id = NoChannel
    /\ timers = 0
    /\ outbox = <<>>
    /\ events = <<>>
    /\ recorded = <<>>
    /\ adopted = NoChannel
    /\ old_timers = 0
    /\ app = "fresh"
    /\ ev = NoEv

\* use_api_token has its default, False
Init ==
    /\ pull_config \in BOOLEAN
    /\ use_api_token = FALSE
    /\ Constructed

\* either mode
InitAuth ==
    /\ pull_config \in BOOLEAN
    /\ use_api_token \in BOOLEAN
    /\ Constructed

\* ---------------------------------------------------------------- helpers
\* `pat in text` of Python, on sequences of characters
Contains(text, pat) ==
    \E i \in 0..(Len(text) - Len(pat)) :
        \A j \in 1..Len(pat) : text[i + j] = pat[j]

\* lst[-n:] of Python
LastN(lst, n) ==
    IF Len(lst) <= n THEN lst ELSE SubSeq(lst, Len(lst) - n + 1, Len(lst))

\* ws.send(frame) inside the try/except of a sender: the frame goes out when
\* self.ws is a WebSocketApp whose socket is open; otherwise the call
\* raises (None has no send, the socket is closed) and the sender's except
\* clause swallows it.
ws_send(c, frame) ==
    IF c.ws = "open"
    THEN [c EXCEPT !.outbox = Append(@, frame),
                   !.ev.out = Append(@, IF frame.method # ""
                                        THEN frame.method
                                        ELSE IF frame.data.result # ""
                                        THEN "result"
                                        ELSE frame.data.text)]
    ELSE c

\* self.connection_status.emit(connected, ...)
emit_status(c, connected) ==
    [c EXCEPT !.ev.out = Append(@, IF connected THEN "status_true"
                                   ELSE "status_false")]

\* What a frame carries besides its method, params.mid and id: the private
\* channel of a subscription, the channelList entry and the message text of
\* a publish, the text of a frame that is no JSON-RPC envelope, the result
\* of a response envelope.
NoData == [channel |-> NoChannel, channelList |-> <<>>, text |-> "",
           result |-> ""]

\* get_next_rpc_id followed by ws.send of a request frame
send_frame(c, method, mid, data) ==
    LET c1 == [c EXCEPT !.rpc_id_counter = @ + 1]
    IN  ws_send(c1, [method |-> method, mid |-> mid,
                     id |-> c1.rpc_id_counter, data |-> data])

send_request(c, method, mid) == send_frame(c, method, mid, NoData)

\* ws.send(text) of a plain text frame
send_text(c, text) ==
    ws_send(c, [method |-> "", mid |-> NoMid, id |-> 0,
                data |-> [NoData EXCEPT !.text = text]])

\* --------------------------------------------------------------- reconnect
\* delay = min(5 * (2 ** self.reconnect_attempts), 60)
Backoff_NoCap(n) == 5 * (2 ^ n)
Backoff(n) == Min(5 * (2 ^ n), 60)

\* schedule_reconnect(delay); delay 0 stands for None (`if not delay`)
schedule_reconnect_NoCeiling(c, delay) ==
    LET d == IF delay = 0 THEN Backoff(c.reconnect_attempts) ELSE delay
        c1 == [c EXCEPT !.ev.called = TRUE, !.ev.arg = delay]
    IN  IF ~c.running
        THEN c1
        ELSE [c1 EXCEPT !.reconnect_attempts = @ + 1,
                        !.timers = @ + 1,
                        !.ev.armed = d]
schedule_reconnect(c, delay) ==
    LET d == IF delay = 0 THEN Backoff(c.reconnect_attempts) ELSE delay
        c1 == [c EXCEPT !.ev.called = TRUE, !.ev.arg = delay]
    IN  IF ~c.running
        THEN c1
        ELSE IF c.reconnect_attempts >= max_reconnect_attempts
        THEN c1
        ELSE [c1 EXCEPT !.reconnect_attempts = @ + 1,
                        !.timers = @ + 1,
                        !.ev.armed = d]

\* disconnect(): ws.close() asks the worker of the old WebSocketApp to end,
\* and self.ws forgets it; its remaining callbacks arrive later.
disconnect_KeepTimer(c) ==
    [c EXCEPT !.is_manual_disconnect = TRUE,
              !.stale = IF c.ws \in Alive
                        THEN [@ EXCEPT ![c.ws] = @ + 1] ELSE @,
              !.ws = "None",
              !.is_authenticated = FALSE,
              !.status = "offline"]
disconnect(c) ==
    [c EXCEPT !.is_manual_disconnect = TRUE,
              !.stale = IF c.ws \in Alive
                        THEN [@ EXCEPT ![c.ws] = @ + 1] ELSE @,
              !.ws = "None",
              !.is_authenticated = FALSE,
              !.ping_timer = FALSE,
              !.status = "offline"]

\* connect(): self.config is empty exactly when pull_config is, and
\* build_websocket_url returns a URL whenever there is a config.  The except
\* clause (the WebSocketApp constructor or Thread.start raising) is left
\* out.
\* build_websocket_url ensures a channel id (a captured configuration names
\* a private channel) and chooses the authentication parameters; connect
\* adds the Authorization header on the same condition.
connect(c) ==
    LET c1 == IF c.ws # "None" THEN disconnect(c) ELSE c
        ch == IF c1.channel_id = NoChannel THEN ConfigChannel
              ELSE c1.channel_id
    IN  IF ~c1.pull_config
        THEN c1
        ELSE emit_status(
                 [c1 EXCEPT !.channel_id = ch,
                            !.ev.url = ch,
                            !.ev.cred = IF c1.use_api_token /\ c1.api_token
                                        THEN "token" ELSE "session",
                            !.status = "connect",
                            !.ws = "connecting"],
                 FALSE)

\* get_or_create_api_token(): whether it returns a token, given what
\* get_token_api and create_token_api come back with
get_or_create_api_token(get, create) ==
    IF get = "raises" THEN FALSE
    ELSE IF get = "token" THEN TRUE
    ELSE create = "token"

\* the calls get_or_create_api_token() makes to the REST collaborator:
\* get_token_api(), and create_token_api(name, expires_in_days=365) when
\* that came back without raising and without a usable token
rest_calls_CreateAlways(get, create) == <<"get", "create">>
rest_calls(get, create) ==
    IF get \in {"token", "raises"} THEN <<"get">> ELSE <<"get", "create">>

\* load_config(): with a captured configuration, self.channel_id becomes
\* the id of its private channel
load_config(c) ==
    IF c.pull_config THEN [c EXCEPT !.channel_id = ConfigChannel] ELSE c

\* start_client(); get and create are what the REST collaborator would
\* answer
start_client_TokenAbort(c, get, create) ==
    IF c.running
    THEN c
    ELSE LET c1 == load_config(
                       [c EXCEPT !.running = TRUE,
                                 !.ev.started = TRUE,
                                 !.app = IF @ = "manual" THEN "restarted"
                                         ELSE @])
             tok == get_or_create_api_token(get, create)
             c2 == IF c1.use_api_token
                   THEN [c1 EXCEPT !.api_token = tok,
                                   !.ev.rest = rest_calls(get, create),
                                   !.ev.get = get,
                                   !.ev.token = IF tok THEN "ok" ELSE "failed"]
                   ELSE c1
         IN  IF ~c1.pull_config THEN c1
             ELSE IF c1.use_api_token /\ ~tok THEN c2
             ELSE connect(c2)
start_client(c, get, create) ==
    IF c.running
    THEN c
    ELSE LET c1 == load_config(
                       [c EXCEPT !.running = TRUE,
                                 !.ev.started = TRUE,
                                 !.app = IF @ = "manual" THEN "restarted"
                                         ELSE @])
             tok == get_or_create_api_token(get, create)
             c2 == IF c1.use_api_token
                   THEN [c1 EXCEPT !.api_token = tok,
                                   !.use_api_token = tok,
                                   !.ev.rest = rest_calls(get, create),
                                   !.ev.get = get,
                                   !.ev.token = IF tok THEN "ok" ELSE "failed"]
                   ELSE c1
         IN  IF ~c1.pull_config THEN c1 ELSE connect(c2)

\* stop(); the timers pending now are the ones armed before it
stop_KeepSocket(c) == [c EXCEPT !.running = FALSE, !.old_timers = c.timers]
stop(c) ==
    disconnect([c EXCEPT !.running = FALSE, !.old_timers = c.timers])

reconnect(c) == IF c.running THEN connect(c) ELSE c

\* ---------------------------------------------------------- socket events
\* send_initial_subscription()
send_initial_subscription(c) ==
    send_frame([c EXCEPT !.ev.sub = c.channel_id], "subscribe", NoMid,
               [NoData EXCEPT !.channel = c.channel_id])

on_open_NoReset(c) ==
    LET c1 == [c EXCEPT !.status = "online", !.is_authenticated = TRUE]
        c2 == send_initial_subscription(emit_status(c1, TRUE))
    IN  [c2 EXCEPT !.ping_timer = TRUE]
on_open(c) ==
    LET c1 == [c EXCEPT !.status = "online",
                        !.is_authenticated = TRUE,
                        !.reconnect_attempts = 0]
        c2 == send_initial_subscription(emit_status(c1, TRUE))
    IN  [c2 EXCEPT !.ping_timer = TRUE]

send_keepalive(c) ==
    IF c.ws # "None" /\ c.is_authenticated
    THEN send_request(c, "ping", NoMid)
    ELSE c

IsAuthError(text) ==
    Contains(text, <<"4", "0", "1">>) \/ Contains(text, <<"4", "0", "3">>)

on_error(c, text) ==
    LET c1 == emit_status([c EXCEPT !.status = "offline"], FALSE)
    IN  IF ~IsAuthError(text) THEN schedule_reconnect(c1, ErrorDelay) ELSE c1

on_close_AnyCode(c, close_status_code) ==
    LET c1 == emit_status([c EXCEPT !.is_authenticated = FALSE,
                                    !.ping_timer = FALSE,
                                    !.status = "offline"], FALSE)
    IN  IF c1.running /\ ~c1.is_manual_disconnect
        THEN schedule_reconnect(c1, 0)
        ELSE c1
on_close(c, close_status_code) ==
    LET c1 == emit_status([c EXCEPT !.is_authenticated = FALSE,
                                    !.ping_timer = FALSE,
                                    !.status = "offline"], FALSE)
    IN  IF c1.running /\ close_status_code # NORMAL_CLOSURE
           /\ ~c1.is_manual_disconnect
        THEN schedule_reconnect(c1, 0)
        ELSE c1

\* run_websocket(): run_forever raised
run_websocket_except(c) ==
    IF c.running THEN schedule_reconnect(c, 0) ELSE c

\* -------------------------------------------------------- inbound messages
\* handle_uad_shop_chat / handle_im_event / handle_online_event /
\* handle_pull_event / handle_generic_event: each emits one event of type
\* '<module>.<command>' on message_received.
emit_event(c, module_id, command, mid) ==
    [c EXCEPT !.events =
                  Append(@, [type |-> <<module_id, command>>, mid |-> mid]),
              !.ev.out = Append(@, "event")]

\* handle_pull_event(): what it does before it emits
handle_pull_event(c, params) ==
    IF params.command = "channel_replaced" /\ params.channel_id # NoChannel
    THEN [c EXCEPT !.channel_id = params.channel_id,
                   !.adopted = params.channel_id,
                   !.ev.adopt = params.channel_id]
    ELSE c

record_mid_KeepOldest(c, mid) ==
    [c EXCEPT !.session.mid = mid,
              !.session.lastMessageIds =
                  IF Len(@) >= RecentCap THEN @ ELSE Append(@, mid),
              !.recorded = Append(@, mid)]
record_mid(c, mid) ==
    [c EXCEPT !.session.mid = mid,
              !.session.lastMessageIds = LastN(Append(@, mid), RecentCap),
              !.recorded = Append(@, mid)]

\* handle_incoming_message(params): params = [mid, module_id, command,
\* channel_id], the last two standing for body.command and
\* body.params.channel_id
\* body.get('module_id', '').lower(), for the module ids of the inputs
lower(module_id) ==
    IF module_id = "IM" THEN "im"
    ELSE module_id

\* the prefix of the event type the handler chosen for a module emits:
\* handle_uad_shop_chat, handle_im_event, handle_online_event,
\* handle_pull_event, and handle_generic_event for any other module
event_prefix(module_id) ==
    CASE module_id = "uad.shop.chat" -> "uad.shop.chat"
      [] module_id = "im" -> "im"
      [] module_id = "online" -> "online"
      [] module_id = "pull" -> "pull"
      [] OTHER -> module_id

\* handle_incoming_message(params): the session update, the handler of the
\* module, the ack.  Every handler reads params.keys() of body.params before it
\* emits: for a body.params that is not an object (a list, null) it raises,
\* and the except clause of handle_incoming_message ends the call after the
\* session update, with no event and no ack.
handle_incoming_message(c, params) ==
    LET module_id == lower(params.module_id)
        c0 == [c EXCEPT !.ev.mid = params.mid,
                        !.ev.module = params.module_id,
                        !.ev.command = params.command,
                        !.ev.dup = \E i \in 1..Len(c.session.lastMessageIds) :
                                       c.session.lastMessageIds[i] = params.mid]
        c1 == IF params.mid # NoMid THEN record_mid(c0, params.mid) ELSE c0
        c1a == IF module_id = "pull"
               THEN handle_pull_event(c1, params) ELSE c1
        c2 == emit_event(c1a, event_prefix(module_id), params.command,
                         params.mid)
    IN  IF params.body_params # "dict" THEN [c1 EXCEPT !.ev.raised = TRUE]
        ELSE IF params.mid # NoMid THEN send_request(c2, "ack", params.mid)
        ELSE c2

\* on_message(ws, message) for a frame that decodes to a JSON-RPC envelope
\* with method 'message'
on_message(c, params) ==
    handle_incoming_message([c EXCEPT !.message_count = @ + 1], params)

\* what json.loads gives for the object with these members: its method, its
\* id, whether its params and its params.body are objects, and what
\* handle_incoming_message reads from params
json_object(members) ==
    [method |-> CASE members \in {"message", "message_params_list",
                                  "message_body_str",
                                  "message_config_expired"} -> "message"
                  [] members \in {"ping_1", "ping_9"} -> "ping"
                  [] members = "no_method" -> NoMethod
                  [] OTHER -> members,
     id |-> CASE members = "ping_1" -> 1
              [] members = "ping_9" -> 9
              [] members = "no_method" -> 1
              [] OTHER -> NoId,
     params_is_dict |-> (members # "message_params_list"),
     body_is_dict |-> (members # "message_body_str"),
     params |-> IF members = "message_config_expired"
                THEN [mid |-> 2, module_id |-> "pull",
                      command |-> "config_expired",
                      channel_id |-> NoChannel, body_params |-> "dict"]
                ELSE [mid |-> 1, module_id |-> "im", command |-> "x",
                      channel_id |-> NoChannel, body_params |-> "dict"]]

\* handle_json_message(data) for a dict.  For a 'message' whose params is
\* no dict, params.get raises in handle_incoming_message, and for a body
\* that is no dict, body.get does; both before the session update, and the
\* except clause of handle_incoming_message ends the call.
handle_json_message_FreshId(c, data) ==
    LET c0 == [c EXCEPT !.ev.method = data.method, !.ev.id = data.id]
    IN  CASE data.method = "message" ->
                 IF data.params_is_dict /\ data.body_is_dict
                 THEN handle_incoming_message(c0, data.params)
                 ELSE [c0 EXCEPT !.ev.raised = TRUE]
          [] data.method = "ping" ->
                 IF c0.ws # "None"
                 THEN send_frame(c0, "", NoMid,
                                 [NoData EXCEPT !.result = "pong"])
                 ELSE c0
          [] data.method \in {"result", "error"} -> c0
          [] OTHER ->
                 [c0 EXCEPT !.events =
                                Append(@, [type |-> <<"jsonrpc">>,
                                           method |-> data.method,
                                           mid |-> NoMid]),
                            !.ev.out = Append(@, "event")]
handle_json_message(c, data) ==
    LET c0 == [c EXCEPT !.ev.method = data.method, !.ev.id = data.id]
    IN  CASE data.method = "message" ->
                 IF data.params_is_dict /\ data.body_is_dict
                 THEN handle_incoming_message(c0, data.params)
                 ELSE [c0 EXCEPT !.ev.raised = TRUE]
          [] data.method = "ping" ->
                 IF c0.ws # "None"
                 THEN ws_send(c0, [method |-> "", mid |-> NoMid,
                                   id |-> data.id,
                                   data |-> [NoData EXCEPT
                                                !.result = "pong"]])
                 ELSE c0
          [] data.method \in {"result", "error"} -> c0
          [] OTHER ->
                 [c0 EXCEPT !.events =
                                Append(@, [type |-> <<"jsonrpc">>,
                                           method |-> data.method,
                                           mid |-> NoMid]),
                            !.ev.out = Append(@, "event")]

\* json.loads(text) succeeds: on an object, on a list
IsObjectText(text) ==
    Len(text) = 3 /\ text[1] = "{" /\ text[3] = "}" /\ text[2] \in Members
json_loads_ok(text) == IsObjectText(text) \/ text = TextList

\* handle_json_message(json.loads(text)): for a list data.get raises and the
\* except clause of handle_json_message ends the call
handle_json_text(c, text) ==
    IF IsObjectText(text) THEN handle_json_message(c, json_object(text[2]))
    ELSE [c EXCEPT !.ev.raised = TRUE]

\* re.search(r'\{.*\}', text).group(): from the first { to the last },
\* <<>> when there is no match
search(text) ==
    LET opens == {i \in 1..Len(text) : text[i] = "{"}
        closes == {i \in 1..Len(text) : text[i] = "}"}
        first == CHOOSE i \in opens : \A j \in opens : i <= j
        last == CHOOSE i \in closes : \A j \in closes : j <= i
    IN  IF opens = {} \/ closes = {} THEN <<>>
        ELSE IF first < last THEN SubSeq(text, first, last) ELSE <<>>

\* text_data.strip(), on sequences of characters
RECURSIVE strip(_)
strip(text) ==
    IF text = <<>> THEN text
    ELSE IF Head(text) = " " THEN strip(Tail(text))
    ELSE IF text[Len(text)] = " " THEN strip(SubSeq(text, 1, Len(text) - 1))
    ELSE text

\* process_text_message(text_data): an empty text is skipped, a JSON text
\* handled; of the others the ping sentinel is answered, the pong sentinel
\* logged, and a text holding {...} that parses handled as that JSON
process_text_message_NoPong(c, text_data) == c
process_text_message(c, text_data) ==
    LET text == strip(text_data)
        json_match == search(text)
    IN  IF text = <<>> THEN c
        ELSE IF json_loads_ok(text) THEN handle_json_text(c, text)
        ELSE IF text = TextPing THEN send_text(c, "pong")
        ELSE IF text = TextPong THEN c
        ELSE IF json_match # <<>> /\ json_loads_ok(json_match)
        THEN handle_json_text(c, json_match)
        ELSE c

\* on_message(ws, message) for a str: handle_text_message
on_message_text(c, text_data) ==
    process_text_message([c EXCEPT !.message_count = @ + 1], text_data)

\* The UTF-8 bytes of an item.  The members of an object are ASCII; the
\* model keeps them as one item and their bytes as one number below 32.
utf8_item(item) ==
    CASE item = " " -> <<32>>
      [] item = "[" -> <<91>>
      [] item = "]" -> <<93>>
      [] item = "g" -> <<103>>
      [] item = "i" -> <<105>>
      [] item = "n" -> <<110>>
      [] item = "o" -> <<111>>
      [] item = "p" -> <<112>>
      [] item = "x" -> <<120>>
      [] item = "{" -> <<123>>
      [] item = "}" -> <<125>>
      [] item = "e_acute" -> <<195, 169>>
      [] item = "message" -> <<1>>
      [] item = "message_params_list" -> <<2>>
      [] item = "message_body_str" -> <<3>>
      [] item = "ping_1" -> <<4>>
      [] item = "ping_9" -> <<5>>
      [] item = "result" -> <<6>>
      [] item = "error" -> <<7>>
      [] item = "notify" -> <<8>>
      [] item = "no_method" -> <<9>>
      [] item = "message_config_expired" -> <<11>>
Ascii == {" ", "[", "]", "g", "i", "n", "o", "p", "x", "{", "}"} \cup Members

\* text.encode('utf-8')
RECURSIVE utf8(_)
utf8(text) ==
    IF text = <<>> THEN <<>> ELSE utf8_item(Head(text)) \o utf8(Tail(text))

\* binary_data.decode('utf-8', errors='ignore'): a byte below 128 is its
\* character, 195 169 is one character, and a byte that starts or continues
\* no valid sequence is left out
decode_AsciiOnly(binary_data) ==
    LET RECURSIVE d(_)
        d(b) == IF b = <<>> THEN <<>>
                ELSE IF Head(b) < 128
                THEN <<CHOOSE item \in Ascii : utf8_item(item) = <<Head(b)>> >>
                         \o d(Tail(b))
                ELSE d(Tail(b))
    IN  d(binary_data)
RECURSIVE decode(_)
decode(binary_data) ==
    IF binary_data = <<>> THEN <<>>
    ELSE IF Head(binary_data) < 128
    THEN <<CHOOSE item \in Ascii : utf8_item(item) = <<Head(binary_data)>> >>
             \o decode(Tail(binary_data))
    ELSE IF Len(binary_data) >= 2 /\ Head(binary_data) = 195
            /\ binary_data[2] = 169
    THEN <<"e_acute">> \o decode(Tail(Tail(binary_data)))
    ELSE decode(Tail(binary_data))

\* handle_binary_message(binary_data)
handle_binary_message(c, binary_data) ==
    LET text_data == decode(binary_data)
    IN  IF strip(text_data) # <<>> THEN process_text_message(c, text_data)
        ELSE c

\* on_message(ws, message) for bytes
on_message_binary(c, binary_data) ==
    handle_binary_message([c EXCEPT !.message_count = @ + 1], binary_data)

\* str(chat_id) for chat_id >= 0, as a sequence of characters
RECURSIVE str(_)
str(n) ==
    IF n < 10 THEN <<DecimalDigits[n + 1]>>
    ELSE str(n \div 10) \o <<DecimalDigits[(n % 10) + 1]>>

\* send_message(chat_id, text); ev.ret is what it returns
send_message_WrongChannel(c, chat_id, text) ==
    IF c.ws = "None" \/ ~c.is_authenticated
    THEN [c EXCEPT !.ev.ret = "false"]
    ELSE LET c1 == send_frame(c, "publish", NoMid,
                              [NoData EXCEPT !.channelList = <<str(0)>>,
                                             !.text = text])
         IN  [c1 EXCEPT !.ev.ret = IF c.ws = "open" THEN "true" ELSE "false"]
send_message(c, chat_id, text) ==
    IF c.ws = "None" \/ ~c.is_authenticated
    THEN [c EXCEPT !.ev.ret = "false"]
    ELSE LET c1 == send_frame(c, "publish", NoMid,
                              [NoData EXCEPT !.channelList = <<str(chat_id)>>,
                                             !.text = text])
         IN  [c1 EXCEPT !.ev.ret = IF c.ws = "open" THEN "true" ELSE "false"]

\* ------------------------------------------------------------ two threads
\* The callbacks run on the thread connect() starts for run_websocket;
\* send_message runs on the thread of the application.  No lock guards
\* is_authenticated or rpc_id_counter, and get_next_rpc_id is two statements
\* (self.rpc_id_counter += 1; return self.rpc_id_counter), the first a load,
\* an add and a store.  How a send_message that runs during a callback can
\* interleave with it, other than before or after the whole callback:
\*   send_first   the whole send_message runs between two statements of the
\*                callback;
\*   late_read    send_message increments the counter, the callback
\*                allocates its id, then send_message reads the counter;
\*   lost_update  send_message loads the counter, the callback allocates
\*                its id, then send_message stores its sum and reads it.
IdRaces == {"late_read", "lost_update"}
Races == {"send_first"} \cup IdRaces

\* send_message up to the point where the callback's allocation runs: the
\* guard, and for late_read the increment
send_message_head(c, chat_id, text, race) ==
    LET c0 == [c EXCEPT !.ev.race = race, !.ev.chat = chat_id,
                        !.ev.msg = text]
    IN  IF c.ws = "None" \/ ~c.is_authenticated
        THEN [c0 EXCEPT !.ev.ret = "false"]
        ELSE [c0 EXCEPT !.ev.ret = "pending",
                        !.rpc_id_counter = IF race = "late_read" THEN @ + 1
                                           ELSE @]

\* the rest of send_message, after the callback's allocation: loaded is the
\* counter value send_message read in its head
send_message_tail(c, chat_id, text, race, loaded) ==
    IF c.ev.ret # "pending" THEN c
    ELSE LET c1 == [c EXCEPT !.rpc_id_counter =
                                 IF race = "lost_update" THEN loaded + 1
                                 ELSE @]
             c2 == ws_send(c1, [method |-> "publish", mid |-> NoMid,
                                id |-> c1.rpc_id_counter,
                                data |-> [NoData EXCEPT
                                             !.channelList = <<str(chat_id)>>,
                                             !.text = text]])
         IN  [c2 EXCEPT !.ev.ret = IF c.ws = "open" THEN "true" ELSE "false"]

\* on_open with a send_message of the application thread that starts after
\* is_authenticated was set and before send_initial_subscription allocated
\* its id
on_open_racing(c, chat_id, text, race) ==
    LET c1 == [c EXCEPT !.status = "online",
                        !.is_authenticated = TRUE,
                        !.reconnect_attempts = 0]
        c2 == emit_status(c1, TRUE)
        c3 == IF race = "send_first"
              THEN [send_message(c2, chat_id, text) EXCEPT
                       !.ev.race = race, !.ev.chat = chat_id, !.ev.msg = text]
              ELSE send_message_head(c2, chat_id, text, race)
        c4 == send_initial_subscription(c3)
        c5 == IF race = "send_first" THEN c4
              ELSE send_message_tail(c4, chat_id, text, race,
                                     c2.rpc_id_counter)
    IN  [c5 EXCEPT !.ping_timer = TRUE]

\* on_message for a 'message' frame with a send_message of the application
\* thread around the allocation of the ack's id
on_message_racing(c, params, chat_id, text, race) ==
    send_message_tail(on_message(send_message_head(c, chat_id, text, race),
                                 params),
                      chat_id, text, race, c.rpc_id_counter)

\* ----------------------------------------------------------------- actions
\* A callback comes from the WebSocketApp self.ws names (src = "ws") or from
\* a stale one that is in worker state src.
Sources == {"ws"} \cup Alive
SockState(src) == IF src = "ws" THEN ws ELSE src
Has(src, states) ==
    IF src = "ws" THEN ws \in states ELSE src \in states /\ stale[src] > 0

\* the worker of src moves to state `to`; an ended stale worker is forgotten
Move(c, src, to) ==
    IF src = "ws"
    THEN [c EXCEPT !.ws = to]
    ELSE LET less == [c.stale EXCEPT ![src] = @ - 1]
         IN  [c EXCEPT !.stale = IF to \in Alive
                                 THEN [less EXCEPT ![to] = @ + 1] ELSE less]

Begin(op, src) ==
    [Self EXCEPT !.ev.op = op, !.ev.cur = (src = "ws"),
                 !.ev.n = reconnect_attempts]

StaleCount(f) == f["connecting"] + f["open"] + f["errored"] + f["errored_auth"]

StartClient_Unguarded(get, create) ==
    Commit(start_client([Begin("start_client", "ws") EXCEPT
                            !.running = FALSE], get, create))
StartClient(get, create) ==
    Commit(start_client(Begin("start_client", "ws"), get, create))

AppStop ==
    Commit(stop([Begin("stop", "ws") EXCEPT !.app = "manual"]))

AppDisconnect ==
    Commit(disconnect([Begin("disconnect", "ws") EXCEPT !.app = "manual"]))

\* a pending timer fires: one armed before the last stop() (old) or one
\* armed since
TimerExpires(old) ==
    /\ IF old THEN old_timers > 0 ELSE timers > old_timers
    /\ Commit(reconnect([Begin("reconnect", "ws") EXCEPT
                            !.timers = @ - 1,
                            !.old_timers = IF old THEN @ - 1 ELSE @,
                            !.ev.old = old]))

PingTimerTick ==
    /\ ping_timer
    /\ Commit(send_keepalive(Begin("send_keepalive", "ws")))

OnOpen(src) ==
    /\ Has(src, {"connecting"})
    /\ Commit(on_open(Move(Begin("on_open", src), src, "open")))

OnError(src, text) ==
    /\ Has(src, {"connecting", "open"})
    /\ Commit(on_error(
           Move([Begin("on_error", src) EXCEPT !.ev.auth = IsAuthError(text)],
                src, IF IsAuthError(text) THEN "errored_auth" ELSE "errored"),
           text))

OnClose(src, code) ==
    /\ Has(src, Alive)
    /\ Commit(on_close(
           Move([Begin("on_close", src) EXCEPT
                    !.ev.code = code,
                    !.ev.auth = (SockState(src) = "errored_auth")],
                src, "closed"),
           code))

RunForeverRaises(src) ==
    /\ Has(src, Alive)
    /\ Commit(run_websocket_except(
           Move(Begin("run_websocket", src), src, "closed")))

OnMessage(src, params) ==
    /\ Has(src, {"open"})
    /\ Commit(on_message(Begin("on_message", src), params))

OnMessageText(src, text_data) ==
    /\ Has(src, {"open"})
    /\ Commit(on_message_text(
           [Begin("on_message", src) EXCEPT !.ev.frame = text_data],
           text_data))

OnMessageBinary(src, binary_data) ==
    /\ Has(src, {"open"})
    /\ Commit(on_message_binary(
           [Begin("on_message", src) EXCEPT !.ev.bytes = binary_data],
           binary_data))

\* on_open of a socket while the application calls send_message
OnOpenRacingSend(src, chat_id, text, race) ==
    /\ Has(src, {"connecting"})
    /\ Commit(on_open_racing(Move(Begin("on_open", src), src, "open"),
                             chat_id, text, race))

\* on_message of a 'message' frame while the application calls send_message
OnMessageRacingSend(src, params, chat_id, text, race) ==
    /\ Has(src, {"open"})
    /\ Commit(on_message_racing(Begin("on_message", src), params,
                                chat_id, text, race))

\* the application calls send_message
SendMessage(chat_id, text) ==
    Commit(send_message(
        [Begin("send_message", "ws") EXCEPT !.ev.chat = chat_id,
                                            !.ev.msg = text],
        chat_id, text))

\* The socket self.ws names is open and longer than the ping-wait timeout
\* has passed without an inbound frame.  The client arms no timer for this
\* (ping_wait_timeout stays None), so none of its code runs.
PingWaitElapses ==
    /\ ws = "open"
    /\ Commit(Begin("ping_wait", "ws"))

\* What the REST collaborator may answer to a start_client call.  In cookie
\* mode it is not asked, and one value stands for all.
Answers == IF use_api_token THEN ApiResults ELSE {"token"}

Params == [mid : {NoMid} \cup Mids, module_id : Modules, command : {"x"},
           channel_id : {NoChannel}, body_params : {"dict"}]
SessionParams == [mid : {NoMid} \cup Mids, module_id : {"im"},
                  command : {"x"}, channel_id : {NoChannel},
                  body_params : {"dict"}]
\* 'message' frames for every handler: the known modules, one in capitals,
\* unrecognized ones, none ("" for a body without module_id)
DispatchModules == {"uad.shop.chat", "im", "IM", "online", "pull", "crm", ""}
\* body.params as the server encodes it: an object, or a list (an empty
\* array)
ParamShapes == {"dict", "list"}
DispatchParams ==
    [mid : {NoMid} \cup Mids, module_id : DispatchModules,
     command : {"newMessage", "x"}, channel_id : {NoChannel},
     body_params : ParamShapes]
\* 'pull' events: channel_replaced with and without a channel id, another
\* command; and an event of another module that carries a channel id
PullParams ==
    [mid : {NoMid}, module_id : {"pull"},
     command : {"channel_replaced", "x"},
     channel_id : {NoChannel} \cup NewChannels, body_params : {"dict"}]
    \cup [mid : {NoMid}, module_id : {"im"}, command : {"channel_replaced"},
          channel_id : NewChannels, body_params : {"dict"}]

\* What keeps a behaviour finite: each step must stay within the bounds.
Bounded ==
    /\ StaleCount(stale') <= MaxStale
    /\ timers' <= MaxTimers
    /\ rpc_id_counter' <= MaxRpcId

BoundedMsg ==
    /\ StaleCount(stale') <= MaxStale
    /\ rpc_id_counter' <= MaxMsgRpcId
    /\ message_count' <= MaxFrames

\* at most one frame of a session comes without a mid
BoundedSession ==
    /\ message_count' <= MaxSessionFrames
    /\ Len(events') - Len(recorded') <= 1

BoundedChannel ==
    /\ StaleCount(stale') <= MaxStale
    /\ timers' <= MaxTimers
    /\ rpc_id_counter' <= MaxChannelRpcId
    /\ message_count' <= MaxChannelFrames

BoundedIo ==
    /\ StaleCount(stale') <= MaxStale
    /\ timers' <= MaxTimers
    /\ rpc_id_counter' <= MaxIoRpcId
    /\ message_count' <= MaxIoFrames

BoundedStop ==
    /\ StaleCount(stale') <= MaxStale
    /\ timers' <= MaxTimers
    /\ rpc_id_counter' <= MaxStopRpcId

BoundedFail ==
    /\ StaleCount(stale') <= MaxStale
    /\ timers' <= MaxFailTimers
    /\ rpc_id_counter' <= MaxRpcId

BoundedDispatch ==
    /\ StaleCount(stale') <= MaxStale
    /\ message_count' <= MaxDispatchFrames

BoundedFrame ==
    /\ StaleCount(stale') <= MaxStale
    /\ message_count' <= MaxFrameFrames

BoundedRace ==
    /\ StaleCount(stale') <= MaxStale
    /\ rpc_id_counter' <= MaxRaceRpcId
    /\ message_count' <= MaxRaceFrames

\* The connection manager: the application's calls, the socket events and
\* the reconnect timers.
Next ==
    \/ \E get, create \in Answers : StartClient(get, create) /\ Bounded
    \/ AppStop /\ Bounded
    \/ AppDisconnect /\ Bounded
    \/ \E old \in BOOLEAN : TimerExpires(old) /\ Bounded
    \/ \E src \in Sources : OnOpen(src) /\ Bounded
    \/ \E src \in Sources, text \in ErrTexts : OnError(src, text) /\ Bounded
    \/ \E src \in Sources, code \in CloseCodes : OnClose(src, code) /\ Bounded
    \/ \E src \in Sources : RunForeverRaises(src) /\ Bounded

Spec == Init /\ [][Next]_vars

\* Connections that open and close, the keepalive timer, and messages.
NextMsg ==
    \/ \E get, create \in Answers : StartClient(get, create) /\ BoundedMsg
    \/ AppDisconnect /\ BoundedMsg
    \/ PingTimerTick /\ BoundedMsg
    \/ \E src \in Sources : OnOpen(src) /\ BoundedMsg
    \/ \E src \in Sources : OnClose(src, NORMAL_CLOSURE) /\ BoundedMsg
    \/ \E src \in Sources, params \in Params :
           OnMessage(src, params) /\ BoundedMsg

SpecMsg == Init /\ [][NextMsg]_vars

\* One connection that stays open, and a long run of messages on it.
NextSession ==
    \/ \E get, create \in Answers :
           StartClient(get, create) /\ BoundedSession
    \/ \E src \in Sources : OnOpen(src) /\ BoundedSession
    \/ \E src \in Sources, params \in SessionParams :
           OnMessage(src, params) /\ BoundedSession

SpecSession == Init /\ [][NextSession]_vars

\* Starting and stopping in either authentication mode, with a REST
\* collaborator that may fail; connections that open and fail.
NextAuth ==
    \/ \E get, create \in Answers : StartClient(get, create) /\ Bounded
    \/ AppStop /\ Bounded
    \/ \E old \in BOOLEAN : TimerExpires(old) /\ Bounded
    \/ \E src \in Sources : OnOpen(src) /\ Bounded
    \/ \E src \in Sources : OnError(src, ErrReset) /\ Bounded

SpecAuth == InitAuth /\ [][NextAuth]_vars

\* Connections on which 'pull' events arrive, closes that are retried, and
\* the application stopping and starting the client.
NextChannel ==
    \/ \E get, create \in Answers :
           StartClient(get, create) /\ BoundedChannel
    \/ AppStop /\ BoundedChannel
    \/ \E old \in BOOLEAN : TimerExpires(old) /\ BoundedChannel
    \/ \E src \in Sources : OnOpen(src) /\ BoundedChannel
    \/ \E src \in Sources : OnClose(src, 1006) /\ BoundedChannel
    \/ \E src \in Sources, params \in PullParams :
           OnMessage(src, params) /\ BoundedChannel

SpecChannel == Init /\ [][NextChannel]_vars

\* Text frames coming in and messages going out, on connections that open,
\* fail, fall silent and are replaced.
NextIo ==
    \/ \E get, create \in Answers : StartClient(get, create) /\ BoundedIo
    \/ AppDisconnect /\ BoundedIo
    \/ \E old \in BOOLEAN : TimerExpires(old) /\ BoundedIo
    \/ \E src \in Sources : OnOpen(src) /\ BoundedIo
    \/ \E src \in Sources : OnError(src, ErrReset) /\ BoundedIo
    \/ \E src \in Sources, text_data \in Texts :
           OnMessageText(src, text_data) /\ BoundedIo
    \/ \E chat_id \in ChatIds, text \in MessageTexts :
           SendMessage(chat_id, text) /\ BoundedIo
    \/ PingWaitElapses /\ BoundedIo

SpecIo == Init /\ [][NextIo]_vars

\* The application stopping and starting the client while reconnect timers
\* are pending and the keepalive timer runs.
NextStop ==
    \/ \E get, create \in Answers : StartClient(get, create) /\ BoundedStop
    \/ AppStop /\ BoundedStop
    \/ \E old \in BOOLEAN : TimerExpires(old) /\ BoundedStop
    \/ PingTimerTick /\ BoundedStop
    \/ \E src \in Sources : OnOpen(src) /\ BoundedStop
    \/ \E src \in Sources : OnError(src, ErrReset) /\ BoundedStop
    \/ \E src \in Sources : OnClose(src, NORMAL_CLOSURE) /\ BoundedStop

SpecStop == Init /\ [][NextStop]_vars

\* A running client whose connections fail: every callback a failing
\* WebSocketApp may make, and the reconnect timers.
NextFail ==
    \/ \E get, create \in Answers : StartClient(get, create) /\ BoundedFail
    \/ \E old \in BOOLEAN : TimerExpires(old) /\ BoundedFail
    \/ \E src \in Sources : OnOpen(src) /\ BoundedFail
    \/ \E src \in Sources : OnError(src, ErrReset) /\ BoundedFail
    \/ \E src \in Sources, code \in CloseCodes :
           OnClose(src, code) /\ BoundedFail
    \/ \E src \in Sources : RunForeverRaises(src) /\ BoundedFail

SpecFail == Init /\ [][NextFail]_vars

\* 'message' frames of every module on a connection, and the application
\* dropping the connection.
NextDispatch ==
    \/ \E get, create \in Answers :
           StartClient(get, create) /\ BoundedDispatch
    \/ AppDisconnect /\ BoundedDispatch
    \/ \E src \in Sources : OnOpen(src) /\ BoundedDispatch
    \/ \E src \in Sources, params \in DispatchParams :
           OnMessage(src, params) /\ BoundedDispatch

SpecDispatch == Init /\ [][NextDispatch]_vars

\* The application sending messages while the network thread opens
\* connections and receives 'message' frames.
NextRace ==
    \/ \E get, create \in Answers : StartClient(get, create) /\ BoundedRace
    \/ AppDisconnect /\ BoundedRace
    \/ \E src \in Sources : OnOpen(src) /\ BoundedRace
    \/ \E src \in Sources, params \in Params :
           OnMessage(src, params) /\ BoundedRace
    \/ \E chat_id \in ChatIds, text \in MessageTexts :
           SendMessage(chat_id, text) /\ BoundedRace
    \/ \E src \in Sources, chat_id \in ChatIds, text \in MessageTexts,
          race \in Races :
           OnOpenRacingSend(src, chat_id, text, race) /\ BoundedRace
    \/ \E src \in Sources, params \in Params, chat_id \in ChatIds,
          text \in MessageTexts, race \in IdRaces :
           OnMessageRacingSend(src, params, chat_id, text, race)
           /\ BoundedRace

SpecRace == Init /\ [][NextRace]_vars

\* Text and binary frames of every kind arriving on a connection.
BinaryFrames ==
    {utf8(text) : text \in FrameTexts}
        \cup {BytesInvalid, BytesInvalidPing, BytesCutAccent}

NextFrame ==
    \/ \E get, create \in Answers : StartClient(get, create) /\ BoundedFrame
    \/ AppDisconnect /\ BoundedFrame
    \/ \E src \in Sources : OnOpen(src) /\ BoundedFrame
    \/ \E src \in Sources, text_data \in FrameTexts :
           OnMessageText(src, text_data) /\ BoundedFrame
    \/ \E src \in Sources, binary_data \in BinaryFrames :
           OnMessageBinary(src, binary_data) /\ BoundedFrame

SpecFrame == Init /\ [][NextFrame]_vars

\* ------------------------------------------------------------------ claims
EventsFor(m) == {i \in 1..Len(events) : events[i].mid = m}
AcksFor(m) ==
    {i \in 1..Len(outbox) : outbox[i].method = "ack" /\ outbox[i].mid = m}

\* C1: a 'message' frame whose mid is in the recent-id list already is
\* discarded, so every mid is delivered to the handlers (one event on
\* message_received) at most once.
C1_DuplicateNotDelivered ==
    \A m \in Mids : Cardinality(EventsFor(m)) <= 1

\* C2: however often a mid is received, at most one outbound ack frame
\* names it: the first occurrence is acknowledged, a duplicate is not.
C2_OneAckPerMid ==
    \A m \in Mids : Cardinality(AcksFor(m)) <= 1

\* C3: lastMessageIds holds at most 10 ids and is the most recently recorded
\* ids in arrival order (the oldest is the one evicted); session['mid'] is
\* the mid recorded last.
C3_RecentIdsFifo ==
    LET ids == session.lastMessageIds
        k == Len(recorded) - Len(ids)
    IN  /\ Len(ids) <= 10
        /\ Len(ids) = Min(Len(recorded), 10)
        /\ \A i \in 1..Len(ids) : ids[i] = recorded[k + i]
        /\ session.mid = IF recorded = <<>> THEN 0
                         ELSE recorded[Len(recorded)]
\* an 11th id was recorded and evicted the oldest, which differed from the
\* id that is now first, and a frame without a mid came after it
C3_Witness ==
    /\ Len(recorded) = 11
    /\ Len(session.lastMessageIds) = 10
    /\ recorded[1] = 1
    /\ session.lastMessageIds[1] = 2
    /\ ev.op = "on_message" /\ ev.mid = NoMid

\* C4: schedule_reconnect called without a delay, while running and with
\* attempt count n < 10, arms a timer of min(5 * 2^n, 60) seconds and makes
\* the count n + 1.
C4_BackoffDelay ==
    (ev.called /\ ev.arg = 0 /\ running /\ ev.n < 10)
        => /\ ev.armed = (IF ev.n >= 4 THEN 60 ELSE 5 * (2 ^ ev.n))
           /\ reconnect_attempts = ev.n + 1
\* the cap applies: the sixth consecutive attempt waits 60 s, not 160 s
C4_Witness ==
    ev.called /\ ev.arg = 0 /\ running /\ ev.n = 5 /\ ev.armed = 60

\* C5: reconnect_attempts never exceeds 10, and a schedule_reconnect call
\* made when it is 10 arms no timer and leaves it at 10.
C5_Ceiling ==
    /\ reconnect_attempts <= 10
    /\ (ev.called /\ ev.n = 10)
           => (ev.armed = 0 /\ reconnect_attempts = 10)
C5_Witness == ev.called /\ running /\ ev.n = 10

\* C6: on_open resets reconnect_attempts to 0 whatever it was, so that the
\* next schedule_reconnect computes the initial delay and has 10 attempts
\* left.
C6_OpenResets ==
    ev.op = "on_open"
        => /\ reconnect_attempts = 0
           /\ max_reconnect_attempts - reconnect_attempts = 10
C6_Witness == ev.op = "on_open" /\ ev.n = 10

\* C7: once the application has called disconnect() or stop(), no close or
\* error event of a socket arms a reconnect timer.
C7_ManualNeverReconnects ==
    (app = "manual" /\ ev.op \in {"on_close", "on_error"}) => ev.armed = 0

\* C8: while running, the application having called neither stop() nor
\* disconnect(), every close of the current connection with a code other
\* than 1000 and fewer than 10 attempts schedules a reconnect.
C8_UnexpectedCloseReconnects ==
    (app = "fresh" /\ running /\ ev.op = "on_close" /\ ev.cur
       /\ ev.code # NORMAL_CLOSURE /\ ev.n < 10)
        => ev.armed # 0

\* C9: a socket that failed with a 401/403 error arms no reconnect timer,
\* neither in its error event nor in its close event.
C9_AuthErrorNotRetried ==
    (ev.op \in {"on_error", "on_close"} /\ ev.auth) => ev.armed = 0

\* C10: the reconnect scheduled on a non-authentication socket error waits
\* min(5 * 2^n, 60) seconds, n the attempt count at the call.
C10_ErrorUsesBackoff ==
    (ev.op = "on_error" /\ ~ev.auth /\ ev.armed # 0)
        => ev.armed = (IF ev.n >= 4 THEN 60 ELSE 5 * (2 ^ ev.n))

\* C11: when start_client asks for a token and neither get_token_api nor
\* create_token_api yields one, it goes on in cookie mode: use_api_token is
\* false afterwards and connect() makes a connection request, which carries
\* the session parameters and no token; and no connection request carries a
\* token unless the client is in token mode and holds one.
C11_TokenFallback ==
    /\ (ev.op = "start_client" /\ ev.token = "failed")
           => (~use_api_token /\ ws = "connecting" /\ ev.url # ""
                 /\ ev.cred = "session")
    /\ ev.cred = "token" => (use_api_token /\ api_token)
\* a start in token mode, after a stop(), whose token request failed
C11_Witness ==
    /\ ev.op = "start_client" /\ ev.token = "failed"
    /\ app = "restarted" /\ ws = "connecting"

\* C12: a start_client call that starts the client (it was not running)
\* always makes a connection attempt, with or without a captured pull
\* configuration.
C12_StartAlwaysConnects ==
    (ev.op = "start_client" /\ ev.started)
        => (ev.url # "" /\ ws = "connecting" /\ status = "connect")

\* C13: once a channel_replaced event carrying channel id X was processed,
\* self.channel_id is X, and the URL of every connection request and every
\* subscription frame made from then on names X, until another
\* channel_replaced event comes, also across stop() and start_client();
\* before any such event the channel id is the configuration's.
C13_ChannelKept ==
    /\ adopted # NoChannel
           => /\ channel_id = adopted
              /\ ev.url # "" => ev.url = adopted
              /\ ev.sub # "" => ev.sub = adopted
    /\ adopted = NoChannel => channel_id \in {NoChannel, ConfigChannel}

\* C14: processing a channel_replaced event that carries a channel id
\* schedules a reconnect: schedule_reconnect is called and, the client
\* running and below the attempt ceiling, arms a timer.
C14_ReplacedSchedulesReconnect ==
    (ev.op = "on_message" /\ ev.adopt # "")
        => /\ ev.called
           /\ (running /\ ev.n < max_reconnect_attempts) => ev.armed # 0

\* C15: when the open connection has been silent for longer than the
\* ping-wait timeout, the client closes the socket (the claim: with code
\* 3005) and schedules a reconnect.
C15_StuckDetected ==
    ev.op = "ping_wait"
        => (ws # "open" /\ ev.called
              /\ (ev.n < max_reconnect_attempts => ev.armed # 0))

\* C16: a text frame "ping" arriving on the connection the client holds is
\* answered with exactly one text frame "pong" and nothing else happens: no
\* event is emitted, no rpc id is allocated (so no ack or other request is
\* sent), the session is unchanged.
C16_PingPong ==
    [][(ev'.op = "on_message" /\ ev'.frame = TextPing /\ ev'.cur)
          => /\ outbox' = Append(outbox,
                    [method |-> "", mid |-> NoMid, id |-> 0,
                     data |-> [channel |-> "", channelList |-> <<>>,
                               text |-> "pong", result |-> ""]])
             /\ events' = events
             /\ rpc_id_counter' = rpc_id_counter
             /\ session' = session]_vars
\* a ping answered on a connection that had carried a request before
C16_Witness ==
    /\ ev.op = "on_message" /\ ev.frame = TextPing /\ ev.cur
    /\ Len(outbox) >= 2
    /\ outbox[Len(outbox)].data.text = "pong"

\* C17: send_message(c, t) called while the client is Online (status Online
\* and self.ws the open socket) returns True and sends exactly one frame:
\* method 'publish', channelList the one-element list holding str(c),
\* message t, the next rpc id.
C17_PublishFrame ==
    [][(ev'.op = "send_message" /\ status = "online" /\ ws = "open")
          => /\ ev'.ret = "true"
             /\ outbox' = Append(outbox,
                    [method |-> "publish", mid |-> NoMid,
                     id |-> rpc_id_counter + 1,
                     data |-> [channel |-> "",
                               channelList |->
                                   << IF ev'.chat = 7 THEN <<"7">>
                                      ELSE <<"4", "2">> >>,
                               text |-> ev'.msg, result |-> ""]])]_vars
\* send_message(42, "hello") went out on the open connection
C17_Witness ==
    /\ ev.op = "send_message" /\ ev.ret = "true"
    /\ ev.chat = 42 /\ ev.msg = "hello"
    /\ status = "online" /\ ws = "open"
    /\ outbox[Len(outbox)].method = "publish"

\* C18: send_message called while the status is not Online returns False,
\* sends no frame and allocates no rpc id.
C18_SendRequiresOnline ==
    [][(ev'.op = "send_message" /\ status # "online")
          => /\ ev'.ret = "false"
             /\ outbox' = outbox
             /\ rpc_id_counter' = rpc_id_counter]_vars

\* C19: stop() may be called in any state: it leaves the client not
\* running, Offline, without a socket, not authenticated and without a
\* keepalive timer, and a second stop() right after it changes nothing.
C19_StopIdempotent ==
    LET once == stop([Self EXCEPT !.app = "manual"])
        twice == stop(once)
    IN  /\ ~once.running /\ once.status = "offline" /\ once.ws = "None"
        /\ ~once.is_authenticated /\ ~once.ping_timer
        /\ twice = once
        /\ ev.op = "stop"
               => (~running /\ status = "offline" /\ ws = "None"
                     /\ ~is_authenticated /\ ~ping_timer)
\* stop() was called on an Online client whose keepalive had run
C19_Witness ==
    /\ ev.op = "stop"
    /\ stale["open"] = 1
    /\ rpc_id_counter = 2

\* C20: a reconnect timer armed before stop() makes no connection request
\* when it expires, also when start_client was called in between; and
\* while the client is stopped no keepalive frame goes out.
C20_NoTimerAfterStop ==
    /\ (ev.op = "reconnect" /\ ev.old) => ev.url = ""
    /\ (ev.op = "send_keepalive" /\ ~running)
           => ~(/\ outbox # <<>>
                /\ outbox[Len(outbox)].method = "ping"
                /\ outbox[Len(outbox)].id = rpc_id_counter)

\* The attempt ceiling is reached and nothing is left that could connect:
\* no timer is pending and no WebSocketApp is alive.
Exhausted ==
    /\ running
    /\ reconnect_attempts = max_reconnect_attempts
    /\ timers = 0
    /\ ws \notin Alive
    /\ StaleCount(stale) = 0

\* C21: once the reconnect attempts are exhausted, a start_client call by
\* the application makes a new connection request.
C21_StartAfterExhaustion ==
    [][(ev'.op = "start_client" /\ Exhausted) => ev'.url # ""]_vars

\* C22: at no time are two reconnect timers pending.
C22_OneTimerPerFailure == timers <= 1

\* C23: while the client holds a connection, an open, close or error
\* callback of a WebSocketApp it no longer holds leaves the status, the
\* authenticated flag, the keepalive timer and the reconnect timers as they
\* are.
C23_StaleEventsIgnored ==
    [][(ev'.op \in {"on_open", "on_close", "on_error"} /\ ~ev'.cur
          /\ ws \in {"connecting", "open"})
          => /\ status' = status
             /\ is_authenticated' = is_authenticated
             /\ ping_timer' = ping_timer
             /\ timers' = timers]_vars

\* C24: is_authenticated is true exactly when the status is Online.
C24_AuthenticatedIffOnline ==
    is_authenticated <=> status = "online"

\* C25: the status changes only from Offline to Connecting, from
\* Connecting to Online, and from Connecting or Online to Offline.  A
\* connect() that first calls disconnect() passes through Offline.
C25_StatusTransitions ==
    [][status' # status
          => \/ status = "offline" /\ status' = "connect"
             \/ status = "connect" /\ status' = "online"
             \/ status \in {"connect", "online"} /\ status' = "offline"
             \/ ev'.url # "" /\ ws # "None" /\ status' = "connect"]_vars

C28_KeepaliveWhileAuthenticated ==
    [][/\ (ev'.op = "send_keepalive" /\ outbox' # outbox)
             => /\ is_authenticated /\ ping_timer /\ ws = "open"
                /\ outbox'[Len(outbox')].method = "ping"
       /\ ev'.op = "on_open" => ping_timer'
       /\ ev'.op \in {"on_close", "disconnect", "stop"}
             => (~ping_timer' /\ ~is_authenticated')]_vars
\* a keepalive went out on a connection made after a disconnect()
C28_Witness ==
    /\ ev.op = "send_keepalive" /\ ev.out = <<"ping">>
    /\ app = "restarted"

\* C29: a 'message' frame with a mid that is not in lastMessageIds,
\* arriving on the connection the client holds, whatever its module id and
\* command, makes exactly one event of type '<lower-cased module>.<command>'
\* and then exactly one ack frame for that mid, in this order.
C29_EventThenAck ==
    [][(ev'.op = "on_message" /\ ev'.frame = <<>> /\ ev'.cur
          /\ ev'.mid # NoMid /\ ~ev'.dup)
          => /\ events' = Append(events,
                    [type |-> << IF ev'.module = "IM" THEN "im"
                                 ELSE ev'.module,
                                 ev'.command >>,
                     mid |-> ev'.mid])
             /\ outbox' = Append(outbox,
                    [method |-> "ack", mid |-> ev'.mid,
                     id |-> rpc_id_counter + 1,
                     data |-> [channel |-> "", channelList |-> <<>>,
                               text |-> "", result |-> ""]])
             /\ ev'.out = <<"event", "ack">>]_vars

\* C27: every open of the socket the client holds emits
\* connection-status(true) and then sends exactly one subscribe frame, naming
\* the current channel id, before any other frame goes out, also when the
\* application calls send_message while the open is handled.
C27_SubscribeFirst ==
    [][(ev'.op = "on_open" /\ ev'.cur)
          => /\ Len(ev'.out) >= 2
             /\ ev'.out[1] = "status_true"
             /\ ev'.out[2] = "subscribe"
             /\ \A i \in 3..Len(ev'.out) : ev'.out[i] # "subscribe"
             /\ ev'.sub = channel_id']_vars

\* C30: the request frames sent carry ids from 1 up that strictly increase
\* in the order sent, so no two of them carry the same id, also when
\* send_message runs on the application thread during a callback.
C30_IdsIncrease ==
    \A i, j \in 1..Len(outbox) :
        (outbox[i].method # "" /\ outbox[j].method # "")
            => /\ outbox[i].id >= 1
               /\ i < j => outbox[i].id < outbox[j].id

\* C31: an envelope whose method is not 'message', 'ping' or 'result', or
\* that has no method, is forwarded as exactly one generic event tagged
\* with the method.
C31_OtherMethodsForwarded ==
    [][(ev'.op = "on_message"
          /\ ev'.method \notin {"", "message", "ping", "result"})
          => events' = Append(events, [type |-> <<"jsonrpc">>,
                                       method |-> ev'.method,
                                       mid |-> NoMid])]_vars

\* C32: a 'ping' envelope with id k arriving on the open socket the client
\* holds is answered with exactly one response frame of result 'pong' and id
\* k; the counter of outbound ids stays as it is and no event is emitted.
C32_PingReply ==
    [][(ev'.op = "on_message" /\ ev'.cur /\ ev'.method = "ping")
          => /\ outbox' = Append(outbox,
                    [method |-> "", mid |-> NoMid, id |-> ev'.id,
                     data |-> [channel |-> "", channelList |-> <<>>,
                               text |-> "", result |-> "pong"]])
             /\ ev'.id \in {1, 9}
             /\ (ev'.frame = <<"{", "ping_9", "}">>) => ev'.id = 9
             /\ rpc_id_counter' = rpc_id_counter
             /\ events' = events
             /\ ev'.out = <<"result">>]_vars
\* the ping with id 9 was answered after the subscription had taken id 1
C32_Witness ==
    /\ ev.op = "on_message" /\ ev.cur
    /\ ev.method = "ping" /\ ev.id = 9
    /\ ev.out = <<"result">>
    /\ rpc_id_counter = 1

\* frames that are no well-formed envelope and no sentinel: JSON that is a
\* list, text that is no JSON, messages whose params or body is no object,
\* and bytes that are no UTF-8
MalformedTexts ==
    {TextList, TextJunkObject, TextJunkBrace, TextAccent, TextOther,
     TextObject("message_params_list"), TextObject("message_body_str")}
MalformedBytes ==
    {utf8(text) : text \in MalformedTexts}
        \cup {BytesInvalid, BytesInvalidPing, BytesCutAccent}

\* C33: a malformed frame is discarded: connection state, reconnect count,
\* channel id and session stay as they are, nothing is sent and no
\* reconnect is armed.
C33_MalformedDiscarded ==
    [][(ev'.op = "on_message"
          /\ (ev'.frame \in MalformedTexts \/ ev'.bytes \in MalformedBytes))
          => UNCHANGED <<status, is_authenticated, ws, running,
                         reconnect_attempts, channel_id, session, outbox,
                         timers>>]_vars

\* C38: a binary frame holding the UTF-8 bytes of a text leaves the events,
\* the frames sent and the session as the text frame of that text would.
C38_BinaryLikeText ==
    [][\A text \in FrameTexts :
          (ev'.op = "on_message" /\ ev'.bytes = utf8(text))
              => LET asText == on_message_text(Begin("on_message", "ws"),
                                               text)
                 IN  /\ events' = asText.events
                     /\ outbox' = asText.outbox
                     /\ session' = asText.session
                     /\ rpc_id_counter' = asText.rpc_id_counter
                     /\ ev'.out = asText.ev.out]_vars
\* a binary frame holding a 'message' envelope was delivered and
\* acknowledged
C38_Witness ==
    /\ ev.op = "on_message" /\ ev.cur
    /\ ev.bytes = utf8(<<"{", "message", "}">>)
    /\ ev.out = <<"event", "ack">>
    /\ session.mid = 1

\* C34: the REST collaborator is called only by a start_client that starts
\* the client in token mode: get_token_api first, then create_token_api at
\* most once and only when get_token_api gave no usable token; a reconnect
\* calls neither and its connection request carries the token the client
\* holds, or the session parameters when it holds none.
C34_RestOnlyAtStart ==
    /\ ev.rest \in {<<>>, <<"get">>, <<"get", "create">>}
    /\ ev.rest # <<>> => (ev.op = "start_client" /\ ev.started)
    /\ ev.rest = <<"get", "create">> => ev.get \in {"error", "no_token"}
    /\ (ev.op = "reconnect" /\ ev.url # "")
           => /\ ev.rest = <<>>
              /\ ev.cred = IF use_api_token /\ api_token THEN "token"
                           ELSE "session"
\* a start after a stop() for which get_token_api had no token and
\* create_token_api made one
C34_Witness ==
    /\ ev.op = "start_client" /\ ev.rest = <<"get", "create">>
    /\ ev.token = "ok" /\ ev.cred = "token"
    /\ app = "restarted"

\* C35: processing a 'pull' message with command config_expired schedules a
\* reconnect with a fixed delay of 2 seconds.
C35_ConfigExpiredReconnects ==
    [][(ev'.op = "on_message" /\ ev'.cur /\ ev'.module = "pull"
          /\ ev'.command = "config_expired")
          => (ev'.called /\ ev'.armed = 2 /\ timers' = timers + 1)]_vars

\* C36: after a stop() and a start_client() the client is running again, and
\* a close of the connection it holds with a code other than 1000, below
\* the retry ceiling, schedules a reconnect.
C36_RestartReconnects ==
    [][(ev'.op = "on_close" /\ ev'.cur /\ app = "restarted" /\ running
          /\ ev'.code # NORMAL_CLOSURE
          /\ reconnect_attempts < max_reconnect_attempts)
          => (ev'.called /\ timers' = timers + 1)]_vars

\* C37: start_client() on a running client changes nothing: the socket the
\* client holds and the workers of dropped ones, the connection state, the
\* reconnect count and timers, the channel id and the token stay as they
\* are, no connection request is made and the REST collaborator is not
\* called.
C37_StartWhileRunning ==
    [][(ev'.op = "start_client" /\ running)
          => /\ UNCHANGED <<ws, stale, status, is_authenticated, running,
                            reconnect_attempts, timers, channel_id,
                            use_api_token, api_token, outbox, events>>
             /\ ev'.url = "" /\ ev'.rest = <<>> /\ ~ev'.started]_vars
\* start_client() was called in token mode while the socket was open
C37_Witness ==
    /\ ev.op = "start_client" /\ ~ev.started
    /\ running /\ ws = "open" /\ use_api_token /\ api_token

====
